---------------------------- MODULE Spec2Model ----------------------------
(***************************************************************************)
(* A model of nih-plug's macOS event loop (src/src/event_loop/macos.rs):   *)
(* MacOSEventLoop::new_and_spawn, schedule_gui, schedule_background, Drop  *)
(* and the run loop source callback loop_source_callback, together with    *)
(* the parts of the environment they talk to: the main CFRunLoop, the      *)
(* bounded crossbeam channel and the background worker thread.             *)
(*                                                                         *)
(* Threads: the host's main thread (runs the run loop, may call            *)
(* schedule_gui itself), the producer threads (call schedule_gui and       *)
(* schedule_background), and the background worker thread.  Every step of  *)
(* a thread that another thread can observe is an action of its own.       *)
(***************************************************************************)
EXTENDS Integers, Sequences, FiniteSets, TLC

\* ------------------------------------------------------------------ bounds

\* super::TASK_QUEUE_CAPACITY, the capacity given to channel::bounded (macos.rs:50).
\* Its value is set outside the modelled files; the model keeps it small.
TASK_QUEUE_CAPACITY == 2

\* Number of MacOSEventLoop instances constructed (one after the other) in a run.
MaxInstances == 2

Instances == 1..MaxInstances

\* The threads that are not the main thread and call the scheduling functions.
Producers == {"p1", "p2"}

Callers == Producers \cup {"main"}

\* Number of task values a thread has at hand: enough to fill a channel and have
\* one more rejected.
NumTasks == TASK_QUEUE_CAPACITY + 1

\* A task is opaque to the scheduler; the model tells tasks apart by the thread
\* that submits them and a number.
Tasks == (Producers \X (1..NumTasks)) \cup {<<"main", 1>>}

Submitter(t) == t[1]

VARIABLES
    life,          \* position in the life of the current MacOSEventLoop (new_and_spawn / drop)
    inst,          \* number of the current (or last) instance, 0 before the first
    dropOnMain,    \* whether the thread running drop() is the main thread
    dataAlive,     \* the Box<(Arc<E>, Receiver<T>)> of the current instance is allocated
    mainQ,         \* contents of the bounded main thread channel
    staleQ,        \* what the freed channel buffer of the last dropped instance still holds
    validSources,  \* instances whose CFRunLoopSource is created and not invalidated
    loopSources,   \* instances whose source is registered with the main run loop
    signalled,     \* instances whose source is signalled
    nCreated,      \* per instance: calls of CFRunLoopSourceCreate
    nInvalidated,  \* per instance: calls of CFRunLoopSourceInvalidate
    pc,            \* per producer: position inside schedule_gui / schedule_background
    arg,           \* per producer: the task of the call in progress
    ret,           \* the caller and the value returned by the step just taken, if it returned
    mainPc,        \* main thread: position inside schedule_gui
    mainArg,       \* main thread: the task of the call in progress
    drainPc,       \* main thread: position inside loop_source_callback
    drainInst,     \* the instance whose info pointer the running callback was given
    bgQ,           \* contents of the background thread's channel
    bgClosed,      \* the background channel's sender has been dropped
    bgPc,          \* position of the background worker thread
    running,       \* per executing thread: the (task, is_gui_thread) E::execute is running with
    order,         \* per producer: tasks accepted by the main channel, not yet executed
    bgOrder,       \* per producer: tasks accepted by the background channel, not yet executed
    burst,         \* try_send results since the main channel was empty, no receive since
    overtaken,     \* queued tasks that were waiting when a main-thread call was executed
    crashed,       \* the process died (an outcome of touching freed memory)
    \* ParamSlider (param_slider.rs): the widget's State, its parameter and its output
    keyboard_modifiers,     \* State::keyboard_modifiers: which of command and shift are held
    drag_active,            \* State::drag_active
    granular_drag_start_x,  \* State::granular_drag_start_x: <<>> for None, <<x>> for Some(x)
    last_click,             \* State::last_click: <<>> for None, <<kind, position>> for Some
    ignore_changes,         \* State::ignore_changes
    plain,                  \* the parameter's current plain value
    event,                  \* the kind of the event on_event handled last
    published,              \* the messages on_event published for that event, in order
    gestureOpen,            \* a BeginSetParameter was published and no EndSetParameter since
    afterReset,             \* the last press inside the bounds was a reset
    buttonDown              \* the pointer's button (or finger) is down

eventLoopVars == <<life, inst, dropOnMain, dataAlive, mainQ, staleQ, validSources,
                   loopSources, signalled, nCreated, nInvalidated, pc, arg, ret, mainPc,
                   mainArg, drainPc, drainInst, bgQ, bgClosed, bgPc, running, order,
                   bgOrder, burst, overtaken, crashed>>

sliderVars == <<keyboard_modifiers, drag_active, granular_drag_start_x, last_click,
                ignore_changes, plain, event, published, gestureOpen, afterReset,
                buttonDown>>

vars == <<eventLoopVars, sliderVars>>

lifeVars == <<life, inst, dropOnMain, dataAlive>>

sourceVars == <<validSources, loopSources, nCreated, nInvalidated>>

bgVars == <<bgQ, bgClosed, bgPc>>

ghostVars == <<order, bgOrder, burst, overtaken>>

\* A thread's task variable holds no task (<<>>) or one task (<<t>>).
NoTask == <<>>

Held(t) == <<t>>

TaskOf(h) == h[1]

\* The threads that run E::execute: the main thread and the background worker.
Executing == {"main", "worker"}

\* An executor call that passes is_gui_thread = true whoever calls.
ExecuteAlwaysGui(t, gui) == <<t, TRUE>>

\* E::execute(task, is_gui_thread) as seen from outside: the executor's body is the
\* plugin's, the model records the arguments it is running with.
Execute(t, gui) == <<t, gui>>

NotExecuting == <<>>

\* What a step returns to the caller of a scheduling function: nothing, unless
\* the step is the return of schedule_gui or schedule_background.
NoReturn == [who |-> "none", val |-> "none"]

Return(who, val) == [who |-> who, val |-> IF val THEN "true" ELSE "false"]

\* ------------------------------------------------------------------ Init

\* ------------------------------------------------------------------ ParamSlider: state

\* Largest x coordinate of the cursor; coordinates are whole pixels.
MaxX == 3

\* layout.bounds(): the widget occupies the pixels BoundsLeft .. BoundsLeft +
\* BoundsWidth - 1 of one row; a cursor is in that row or in another one.
BoundsLeft == 1

BoundsWidth == MaxX - 1

Positions == [x : 0..MaxX, inRow : BOOLEAN]

\* bounds.contains(cursor_position)
Contains(pos) == pos.inRow /\ BoundsLeft <= pos.x /\ pos.x < BoundsLeft + BoundsWidth

\* keyboard::Modifiers, as far as on_event looks at them.
Modifiers == [command : BOOLEAN, shift : BOOLEAN]

\* The parameter is stepped: its plain values are 0 .. BoundsWidth, one step per
\* pixel of the widget.  Normalized values and granular x coordinates are counted
\* in tenths of a step (Scale per step).
Scale == 10

PlainValues == 0..BoundsWidth

\* self.param.normalized_value()
NormalizedValue(p) == Scale * p

\* self.param.preview_plain(normalized): snaps to the nearest plain value.
PreviewPlain(n) ==
    IF n < 0 THEN 0
    ELSE IF (n + Scale \div 2) \div Scale > BoundsWidth THEN BoundsWidth
    ELSE (n + Scale \div 2) \div Scale

\* self.setter.default_normalized_param_value(self.param)
DefaultPlain == 1

DefaultNormalized == NormalizedValue(DefaultPlain)

\* util::remap_rect_x_coordinate(&bounds, x), x in tenths of a pixel.
RemapRectXCoordinate(x10) == x10 - Scale * BoundsLeft

\* util::remap_rect_x_t(&bounds, t): the x coordinate, in tenths, of normalized t.
RemapRectXT(n) == Scale * BoundsLeft + n

\* GRANULAR_DRAG_MULTIPLIER = 0.1, as the divisor it amounts to.
GranularDivisor == 10

\* drag_start_x + (cursor_position.x - drag_start_x) * GRANULAR_DRAG_MULTIPLIER,
\* in tenths of a pixel.
GranularX(start10, x) == start10 + (Scale * x - start10) \div GranularDivisor

\* ParamMessage values.
BeginSetParameter == <<"BeginSetParameter">>

EndSetParameter == <<"EndSetParameter">>

SetParameterNormalized(n) == <<"SetParameterNormalized", n>>

\* The events on_event tells apart.
NoEvent == [kind |-> "none", pos |-> [x |-> 0, inRow |-> FALSE]]

Handled(kind, pos) == [kind |-> kind, pos |-> pos]

SliderInit ==
    /\ keyboard_modifiers = [command |-> FALSE, shift |-> FALSE]
    /\ drag_active = FALSE
    /\ granular_drag_start_x = <<>>
    /\ last_click = <<>>
    /\ ignore_changes = FALSE
    /\ plain = DefaultPlain
    /\ event = NoEvent
    /\ published = <<>>
    /\ gestureOpen = FALSE
    /\ afterReset = FALSE
    /\ buttonDown = FALSE

\* ------------------------------------------------------------------ initial state

Init ==
    /\ life = "none"
    /\ inst = 0
    /\ dropOnMain = FALSE
    /\ dataAlive = FALSE
    /\ mainQ = <<>>
    /\ staleQ = <<>>
    /\ validSources = {}
    /\ loopSources = {}
    /\ signalled = {}
    /\ nCreated = [i \in Instances |-> 0]
    /\ nInvalidated = [i \in Instances |-> 0]
    /\ pc = [p \in Producers |-> "idle"]
    /\ arg = [p \in Producers |-> NoTask]
    /\ ret = NoReturn
    /\ mainPc = "idle"
    /\ mainArg = NoTask
    /\ drainPc = "idle"
    /\ drainInst = 0
    /\ bgQ = <<>>
    /\ bgClosed = FALSE
    /\ bgPc = "none"
    /\ running = [e \in Executing |-> NotExecuting]
    /\ order = [p \in Producers |-> <<>>]
    /\ overtaken = {}
    /\ bgOrder = [p \in Producers |-> <<>>]
    /\ burst = [on |-> FALSE, res |-> <<>>]
    /\ crashed = FALSE
    /\ SliderInit

\* ------------------------------------------------------------------ helpers

\* A channel that takes one message more than its capacity.
TrySendOkOneMore(q) == Len(q) <= TASK_QUEUE_CAPACITY

\* Sender::try_send on a bounded channel: the message is appended when there is
\* room, and the call fails (Err(Full)) without touching the channel otherwise.
TrySendOk(q) == Len(q) < TASK_QUEUE_CAPACITY

\* A channel that, when full, makes room by dropping the oldest message.
TrySendQueueOverwrite(q, t) ==
    IF Len(q) < TASK_QUEUE_CAPACITY THEN Append(q, t) ELSE Append(Tail(q), t)

TrySendQueue(q, t) == IF TrySendOk(q) THEN Append(q, t) ELSE q

\* Receiver::try_recv: Ok(front message) when there is one, Err(Empty) otherwise.
TryRecvOk(q) == q # <<>>

\* A channel that hands out the newest message first.
TryRecvTaskNewest(q) == q[Len(q)]

TryRecvTask(q) == Head(q)

\* A receive that throws away whatever else is queued.
TryRecvQueueFlush(q) == <<>>

TryRecvQueue(q) == Tail(q)

InSeq(t, q) == \E i \in 1..Len(q) : q[i] = t

\* The task the executor is running on thread e, if any.
RunningTasks(e) == IF running[e] = NotExecuting THEN {} ELSE {running[e][1]}

\* No call, channel or thread holds the task value.
Unheld(t) ==
    /\ ~InSeq(t, mainQ)
    /\ ~InSeq(t, bgQ)
    /\ ~InSeq(t, staleQ)
    /\ \A p \in Producers : arg[p] # Held(t)
    /\ mainArg # Held(t)
    /\ \A e \in Executing : t \notin RunningTasks(e)

\* The task thread c submits next: the first of its values at hand.
Fresh(c, t) ==
    /\ Submitter(t) = c
    /\ Unheld(t)
    /\ \A k \in 1..(t[2] - 1) : ~Unheld(<<c, k>>)

\* The scheduler can be borrowed (&self): constructed and not being dropped.
Live == life = "live" /\ ~crashed

\* new_and_spawn or drop is running on the main thread
MainInLifecycle ==
    \/ life \in {"chan", "boxed", "created", "added"}
    \/ life \in {"removed", "invalidated", "closing", "fields"} /\ dropOnMain

\* The main thread is inside the run loop, between two sources.
MainIdle == mainPc = "idle" /\ drainPc = "idle" /\ ~MainInLifecycle

\* The try_send results recorded since the main channel was empty.
BurstAfterSend(ok) ==
    IF burst.on /\ Len(burst.res) <= TASK_QUEUE_CAPACITY
    THEN [burst EXCEPT !.res = Append(@, ok)]
    ELSE burst

BurstAfterRecv(q) == [on |-> q = <<>>, res |-> <<>>]

\* The order ghost after the executor was invoked for task t.
OrderAfter(ord, t) ==
    IF Submitter(t) \in Producers
    THEN [ord EXCEPT ![Submitter(t)] = SelectSeq(@, LAMBDA x : x # t)]
    ELSE ord

\* ------------------------------------------------------------------ schedule_gui

\* A producer thread enters schedule_gui(task); is_main_thread() is false for it.
GuiCall(p, t) ==
    /\ Live
    /\ pc[p] = "idle"
    /\ Fresh(p, t)
    /\ pc' = [pc EXCEPT ![p] = "send"]
    /\ arg' = [arg EXCEPT ![p] = Held(t)]
    /\ ret' = NoReturn
    /\ UNCHANGED <<lifeVars, sourceVars, bgVars, ghostVars, mainQ, staleQ, signalled,
                   mainPc, mainArg, drainPc, drainInst, running, crashed, sliderVars>>

\* A schedule_gui that uses the blocking send: it waits for room in the queue.
GuiSendBlocking(p) ==
    /\ ~crashed
    /\ pc[p] = "send"
    /\ TrySendOk(mainQ)
    /\ mainQ' = TrySendQueue(mainQ, TaskOf(arg[p]))
    /\ burst' = BurstAfterSend(TRUE)
    /\ arg' = [arg EXCEPT ![p] = NoTask]
    /\ pc' = [pc EXCEPT ![p] = "signal"]
    /\ order' = [order EXCEPT ![p] = Append(@, TaskOf(arg[p]))]
    /\ UNCHANGED overtaken
    /\ ret' = NoReturn
    /\ UNCHANGED <<lifeVars, sourceVars, bgVars, bgOrder, staleQ, signalled, mainPc,
                   mainArg, drainPc, drainInst, running, crashed, sliderVars>>

\* main_thread_sender.try_send(task): on Ok the thread goes on to signal the
\* source, on Err schedule_gui returns false.
GuiTrySend(p) ==
    /\ ~crashed
    /\ pc[p] = "send"
    /\ mainQ' = TrySendQueue(mainQ, TaskOf(arg[p]))
    /\ burst' = BurstAfterSend(TrySendOk(mainQ))
    /\ arg' = [arg EXCEPT ![p] = NoTask]
    /\ IF TrySendOk(mainQ)
       THEN /\ pc' = [pc EXCEPT ![p] = "signal"]
            /\ order' = [order EXCEPT ![p] = Append(@, TaskOf(arg[p]))]
            /\ UNCHANGED overtaken
            /\ ret' = NoReturn
       ELSE /\ pc' = [pc EXCEPT ![p] = "idle"]
            /\ ret' = Return(p, FALSE)
            /\ UNCHANGED <<order, overtaken>>
    /\ UNCHANGED <<lifeVars, sourceVars, bgVars, bgOrder, staleQ, signalled, mainPc,
                   mainArg, drainPc, drainInst, running, crashed, sliderVars>>

\* A schedule_gui that enqueues but forgets to signal the run-loop source.
GuiSignalForgotten(p) ==
    /\ ~crashed
    /\ pc[p] = "signal"
    /\ pc' = [pc EXCEPT ![p] = "wake"]
    /\ ret' = NoReturn
    /\ UNCHANGED <<lifeVars, sourceVars, bgVars, ghostVars, mainQ, staleQ, signalled, arg,
                   mainPc, mainArg, drainPc, drainInst, running, crashed, sliderVars>>

\* CFRunLoopSourceSignal(self.loop_source.0)
GuiSignal(p) ==
    /\ ~crashed
    /\ pc[p] = "signal"
    /\ signalled' = IF inst \in validSources THEN signalled \cup {inst} ELSE signalled
    /\ pc' = [pc EXCEPT ![p] = "wake"]
    /\ ret' = NoReturn
    /\ UNCHANGED <<lifeVars, sourceVars, bgVars, ghostVars, mainQ, staleQ, arg, mainPc,
                   mainArg, drainPc, drainInst, running, crashed, sliderVars>>

\* CFRunLoopWakeUp(CFRunLoopGetMain()), then schedule_gui returns true.
GuiWakeUp(p) ==
    /\ ~crashed
    /\ pc[p] = "wake"
    /\ pc' = [pc EXCEPT ![p] = "idle"]
    /\ ret' = Return(p, TRUE)
    /\ UNCHANGED <<lifeVars, sourceVars, bgVars, ghostVars, mainQ, staleQ, signalled, arg,
                   mainPc, mainArg, drainPc, drainInst, running, crashed, sliderVars>>

\* The main thread enters schedule_gui(task).
GuiCallMain(t) ==
    /\ Live
    /\ MainIdle
    /\ Fresh("main", t)
    /\ mainPc' = "call"
    /\ mainArg' = Held(t)
    /\ ret' = NoReturn
    /\ UNCHANGED <<lifeVars, sourceVars, bgVars, ghostVars, mainQ, staleQ, signalled, pc,
                   arg, drainPc, drainInst, running, crashed, sliderVars>>

\* A schedule_gui without the main-thread check: the main thread's task goes
\* through the queue like everyone else's.
GuiFastPathEnqueue ==
    /\ ~crashed
    /\ mainPc = "call"
    /\ mainPc' = "fast"
    /\ mainQ' = TrySendQueue(mainQ, TaskOf(mainArg))
    /\ signalled' = IF inst \in validSources THEN signalled \cup {inst} ELSE signalled
    /\ mainArg' = NoTask
    /\ ret' = NoReturn
    /\ UNCHANGED <<lifeVars, sourceVars, bgVars, ghostVars, staleQ, pc, arg, drainPc,
                   drainInst, running, crashed, sliderVars>>

\* is_main_thread() is true: self.executor.execute(task, true) is entered.
GuiFastPath ==
    /\ ~crashed
    /\ mainPc = "call"
    /\ mainPc' = "fast"
    /\ running' = [running EXCEPT !["main"] = Execute(TaskOf(mainArg), TRUE)]
    /\ mainArg' = NoTask
    /\ overtaken' = overtaken \cup {mainQ[i] : i \in DOMAIN mainQ}
    /\ ret' = NoReturn
    /\ UNCHANGED <<lifeVars, sourceVars, bgVars, order, bgOrder, burst, mainQ, staleQ,
                   signalled, pc, arg, drainPc, drainInst, crashed, sliderVars>>

\* The executor returns and schedule_gui returns true.
GuiFastReturn ==
    /\ ~crashed
    /\ mainPc = "fast"
    /\ mainPc' = "idle"
    /\ running' = [running EXCEPT !["main"] = NotExecuting]
    /\ ret' = Return("main", TRUE)
    /\ UNCHANGED <<lifeVars, sourceVars, bgVars, ghostVars, mainQ, staleQ, signalled, pc,
                   arg, mainArg, drainPc, drainInst, crashed, sliderVars>>

\* ------------------------------------------------------------------ the run loop

\* The callback's info pointer still points at allocated memory.
InfoValid == drainInst = inst /\ dataAlive

\* The main run loop finds a signalled, valid source: it clears the signal and
\* calls the source's perform callback, loop_source_callback(info).
RunLoopPerform(i) ==
    /\ ~crashed
    /\ MainIdle
    /\ i \in loopSources
    /\ i \in validSources
    /\ i \in signalled
    /\ signalled' = signalled \ {i}
    /\ drainPc' = "recv"
    /\ drainInst' = i
    /\ ret' = NoReturn
    /\ UNCHANGED <<lifeVars, sourceVars, bgVars, ghostVars, mainQ, staleQ, pc, arg, mainPc,
                   mainArg, running, crashed, sliderVars>>

\* A drain callback that uses the blocking receive: it waits for the next task.
DrainRecvBlocking ==
    /\ ~crashed
    /\ drainPc = "recv"
    /\ InfoValid
    /\ TryRecvOk(mainQ)
    /\ running' = [running EXCEPT !["main"] = Execute(TryRecvTask(mainQ), TRUE)]
    /\ mainQ' = TryRecvQueue(mainQ)
    /\ burst' = BurstAfterRecv(TryRecvQueue(mainQ))
    /\ order' = OrderAfter(order, TryRecvTask(mainQ))
    /\ UNCHANGED overtaken
    /\ drainPc' = "exec"
    /\ ret' = NoReturn
    /\ UNCHANGED <<lifeVars, sourceVars, bgVars, bgOrder, staleQ, signalled, pc, arg,
                   mainPc, mainArg, drainInst, crashed, sliderVars>>

\* while let Ok(task) = receiver.try_recv(): one evaluation of the loop condition.
\* On Ok(task) the loop body enters executor.execute(task, true); on Err(_) the
\* loop ends and the callback returns.
DrainRecv ==
    /\ ~crashed
    /\ drainPc = "recv"
    /\ InfoValid
    /\ IF TryRecvOk(mainQ)
       THEN /\ running' = [running EXCEPT !["main"] = Execute(TryRecvTask(mainQ), TRUE)]
            /\ mainQ' = TryRecvQueue(mainQ)
            /\ burst' = BurstAfterRecv(TryRecvQueue(mainQ))
            /\ order' = OrderAfter(order, TryRecvTask(mainQ))
            /\ UNCHANGED overtaken
            /\ drainPc' = "exec"
            /\ UNCHANGED drainInst
       ELSE /\ drainPc' = "idle"
            /\ drainInst' = 0
            /\ UNCHANGED <<running, mainQ, burst, order, overtaken>>
    /\ ret' = NoReturn
    /\ UNCHANGED <<lifeVars, sourceVars, bgVars, bgOrder, staleQ, signalled, pc, arg,
                   mainPc, mainArg, crashed, sliderVars>>

\* A drain callback that handles one task per invocation (if let, not while let).
DrainExecReturnOnce ==
    /\ ~crashed
    /\ drainPc = "exec"
    /\ running' = [running EXCEPT !["main"] = NotExecuting]
    /\ drainPc' = "idle"
    /\ drainInst' = 0
    /\ ret' = NoReturn
    /\ UNCHANGED <<lifeVars, sourceVars, bgVars, ghostVars, mainQ, staleQ, signalled, pc,
                   arg, mainPc, mainArg, crashed, sliderVars>>

\* The executor returns to the loop body; the loop goes back to its condition.
DrainExecReturn ==
    /\ ~crashed
    /\ drainPc = "exec"
    /\ running' = [running EXCEPT !["main"] = NotExecuting]
    /\ drainPc' = "recv"
    /\ overtaken' = overtaken \ RunningTasks("main")
    /\ ret' = NoReturn
    /\ UNCHANGED <<lifeVars, sourceVars, bgVars, order, bgOrder, burst, mainQ, staleQ,
                   signalled, pc, arg, mainPc, mainArg, drainInst, crashed, sliderVars>>

\* The callback dereferences info after the Box it points to was freed (it was
\* called for a source whose instance is gone, or drop() ran on another thread
\* while it was running).  The read is undefined behaviour; the outcomes kept
\* are: the freed receiver looks empty (the callback returns), the freed buffer
\* still shows its front message (the callback runs that task), the process dies.
DrainRecvFreed ==
    /\ ~crashed
    /\ drainPc = "recv"
    /\ ~InfoValid
    /\ \/ /\ drainPc' = "idle"
          /\ drainInst' = 0
          /\ staleQ' = <<>>
          /\ order' = [p \in Producers |-> <<>>]
          /\ overtaken' = {}
          /\ UNCHANGED <<running, crashed>>
       \/ /\ staleQ # <<>>
          /\ running' = [running EXCEPT !["main"] = Execute(Head(staleQ), TRUE)]
          /\ staleQ' = Tail(staleQ)
          /\ order' = OrderAfter(order, Head(staleQ))
          /\ UNCHANGED overtaken
          /\ drainPc' = "exec"
          /\ UNCHANGED <<drainInst, crashed>>
       \/ /\ crashed' = TRUE
          /\ UNCHANGED <<drainPc, drainInst, staleQ, order, overtaken, running>>
    /\ ret' = NoReturn
    /\ UNCHANGED <<lifeVars, sourceVars, bgVars, bgOrder, burst, mainQ, signalled, pc, arg,
                   mainPc, mainArg, sliderVars>>

\* ------------------------------------------------------------------ the background thread

\* BackgroundThread::schedule(task): a non-blocking enqueue on the worker's own
\* bounded channel, true when the task was taken and false when the channel is full.
BackgroundSchedule(q, t) == [ok |-> TrySendOk(q), queue |-> TrySendQueue(q, t)]

\* A producer thread enters schedule_background(task).
BackgroundCall(p, t) ==
    /\ Live
    /\ pc[p] = "idle"
    /\ Fresh(p, t)
    /\ pc' = [pc EXCEPT ![p] = "bgsend"]
    /\ arg' = [arg EXCEPT ![p] = Held(t)]
    /\ ret' = NoReturn
    /\ UNCHANGED <<lifeVars, sourceVars, bgVars, ghostVars, mainQ, staleQ, signalled,
                   mainPc, mainArg, drainPc, drainInst, running, crashed, sliderVars>>

\* A schedule_background that forwards to schedule_gui's queue instead of the
\* background thread's.
ScheduleBackgroundViaGui(p) ==
    /\ ~crashed
    /\ pc[p] = "bgsend"
    /\ mainQ' = TrySendQueue(mainQ, TaskOf(arg[p]))
    /\ signalled' = IF inst \in validSources THEN signalled \cup {inst} ELSE signalled
    /\ bgOrder' = IF TrySendOk(mainQ)
                    THEN [bgOrder EXCEPT ![p] = Append(@, TaskOf(arg[p]))]
                    ELSE bgOrder
    /\ ret' = Return(p, TrySendOk(mainQ))
    /\ pc' = [pc EXCEPT ![p] = "idle"]
    /\ arg' = [arg EXCEPT ![p] = NoTask]
    /\ UNCHANGED <<lifeVars, sourceVars, bgVars, order, overtaken, burst, staleQ, mainPc,
                   mainArg, drainPc, drainInst, running, crashed, sliderVars>>

\* A schedule_background that also signals the run-loop source.
ScheduleBackgroundSignals(p) ==
    /\ ~crashed
    /\ pc[p] = "bgsend"
    /\ bgQ' = BackgroundSchedule(bgQ, TaskOf(arg[p])).queue
    /\ signalled' = IF inst \in validSources THEN signalled \cup {inst} ELSE signalled
    /\ ret' = Return(p, BackgroundSchedule(bgQ, TaskOf(arg[p])).ok)
    /\ bgOrder' = IF BackgroundSchedule(bgQ, TaskOf(arg[p])).ok
                  THEN [bgOrder EXCEPT ![p] = Append(@, TaskOf(arg[p]))]
                  ELSE bgOrder
    /\ pc' = [pc EXCEPT ![p] = "idle"]
    /\ arg' = [arg EXCEPT ![p] = NoTask]
    /\ UNCHANGED <<lifeVars, sourceVars, bgClosed, bgPc, order, overtaken, burst, mainQ,
                   staleQ, mainPc, mainArg, drainPc, drainInst, running, crashed,
                   sliderVars>>

\* self.background_thread.schedule(task), whose result schedule_background returns
ScheduleBackground(p) ==
    /\ ~crashed
    /\ pc[p] = "bgsend"
    /\ bgQ' = BackgroundSchedule(bgQ, TaskOf(arg[p])).queue
    /\ ret' = Return(p, BackgroundSchedule(bgQ, TaskOf(arg[p])).ok)
    /\ bgOrder' = IF BackgroundSchedule(bgQ, TaskOf(arg[p])).ok
                  THEN [bgOrder EXCEPT ![p] = Append(@, TaskOf(arg[p]))]
                  ELSE bgOrder
    /\ pc' = [pc EXCEPT ![p] = "idle"]
    /\ arg' = [arg EXCEPT ![p] = NoTask]
    /\ UNCHANGED <<lifeVars, sourceVars, bgClosed, bgPc, order, overtaken, burst, mainQ,
                   staleQ, signalled, mainPc, mainArg, drainPc, drainInst, running,
                   crashed, sliderVars>>

\* The worker thread's blocking receive returns a task and the worker enters
\* executor.execute(task, false).
WorkerRecv ==
    /\ ~crashed
    /\ bgPc = "wait"
    /\ bgQ # <<>>
    /\ running' = [running EXCEPT !["worker"] = Execute(Head(bgQ), FALSE)]
    /\ bgQ' = Tail(bgQ)
    /\ bgOrder' = OrderAfter(bgOrder, Head(bgQ))
    /\ bgPc' = "exec"
    /\ ret' = NoReturn
    /\ UNCHANGED <<lifeVars, sourceVars, bgClosed, order, overtaken, burst, mainQ, staleQ,
                   signalled, pc, arg, mainPc, mainArg, drainPc, drainInst, crashed,
                   sliderVars>>

\* The executor returns; the worker goes back to its receive.
WorkerExecReturn ==
    /\ ~crashed
    /\ bgPc = "exec"
    /\ running' = [running EXCEPT !["worker"] = NotExecuting]
    /\ bgPc' = "wait"
    /\ ret' = NoReturn
    /\ UNCHANGED <<lifeVars, sourceVars, bgQ, bgClosed, ghostVars, mainQ, staleQ,
                   signalled, pc, arg, mainPc, mainArg, drainPc, drainInst, crashed,
                   sliderVars>>

\* The worker's receive finds the channel empty and its sender gone: the thread exits.
WorkerExit ==
    /\ ~crashed
    /\ bgPc = "wait"
    /\ bgQ = <<>>
    /\ bgClosed
    /\ bgPc' = "exited"
    /\ ret' = NoReturn
    /\ UNCHANGED <<lifeVars, sourceVars, bgQ, bgClosed, ghostVars, mainQ, staleQ,
                   signalled, pc, arg, mainPc, mainArg, drainPc, drainInst, running,
                   crashed, sliderVars>>

\* ------------------------------------------------------------------ new_and_spawn

\* channel::bounded::<T>(TASK_QUEUE_CAPACITY)
NewChannel ==
    /\ ~crashed
    /\ life = "none"
    /\ inst < MaxInstances
    /\ MainIdle
    /\ life' = "chan"
    /\ inst' = inst + 1
    /\ mainQ' = <<>>
    /\ staleQ' = <<>>
    /\ order' = [p \in Producers |-> <<>>]
    /\ overtaken' = {}
    /\ burst' = [on |-> TRUE, res |-> <<>>]
    /\ ret' = NoReturn
    /\ UNCHANGED <<dropOnMain, dataAlive, sourceVars, bgVars, bgOrder, signalled, pc, arg,
                   mainPc, mainArg, drainPc, drainInst, running, crashed, sliderVars>>

\* A construction that creates the source before the captured state is boxed.
NewThreadDataLate ==
    /\ ~crashed
    /\ life = "chan"
    /\ life' = "boxed"
    /\ ret' = NoReturn
    /\ UNCHANGED <<inst, dropOnMain, dataAlive, sourceVars, bgVars, ghostVars, mainQ,
                   staleQ, signalled, pc, arg, mainPc, mainArg, drainPc, drainInst,
                   running, crashed, sliderVars>>

\* Box::new((executor.clone(), main_thread_receiver))
NewThreadData ==
    /\ ~crashed
    /\ life = "chan"
    /\ life' = "boxed"
    /\ dataAlive' = TRUE
    /\ ret' = NoReturn
    /\ UNCHANGED <<inst, dropOnMain, sourceVars, bgVars, ghostVars, mainQ, staleQ,
                   signalled, pc, arg, mainPc, mainArg, drainPc, drainInst, running,
                   crashed, sliderVars>>

\* CFRunLoopSourceCreate(.., &source_context) with info = &*thread_data
NewSourceCreate ==
    /\ ~crashed
    /\ life = "boxed"
    /\ life' = "created"
    /\ validSources' = validSources \cup {inst}
    /\ nCreated' = [nCreated EXCEPT ![inst] = @ + 1]
    /\ ret' = NoReturn
    /\ UNCHANGED <<inst, dropOnMain, dataAlive, loopSources, nInvalidated, bgVars,
                   ghostVars, mainQ, staleQ, signalled, pc, arg, mainPc, mainArg, drainPc,
                   drainInst, running, crashed, sliderVars>>

\* CFRunLoopAddSource(CFRunLoopGetMain(), loop_source, kCFRunLoopCommonModes)
NewAddSource ==
    /\ ~crashed
    /\ life = "created"
    /\ life' = "added"
    /\ loopSources' = IF inst \in validSources THEN loopSources \cup {inst} ELSE loopSources
    /\ ret' = NoReturn
    /\ UNCHANGED <<inst, dropOnMain, dataAlive, validSources, nCreated, nInvalidated,
                   bgVars, ghostVars, mainQ, staleQ, signalled, pc, arg, mainPc, mainArg,
                   drainPc, drainInst, running, crashed, sliderVars>>

\* BackgroundThread::new_and_spawn(executor), then the struct is built and returned.
NewSpawnBackground ==
    /\ ~crashed
    /\ life = "added"
    /\ life' = "live"
    /\ bgQ' = <<>>
    /\ bgClosed' = FALSE
    /\ bgPc' = "wait"
    /\ ret' = NoReturn
    /\ UNCHANGED <<inst, dropOnMain, dataAlive, sourceVars, ghostVars, mainQ, staleQ,
                   signalled, pc, arg, mainPc, mainArg, drainPc, drainInst, running,
                   crashed, sliderVars>>

\* ------------------------------------------------------------------ drop

\* No call that borrows the scheduler is in progress, so its owner may drop it.
Unborrowed == mainPc = "idle" /\ \A p \in Producers : pc[p] = "idle"

\* A drop that frees the callback's captured state before it touches the source.
DropThreadDataFirst(onMain) ==
    /\ Live
    /\ Unborrowed
    /\ onMain => MainIdle
    /\ life' = "removed"
    /\ dropOnMain' = onMain
    /\ dataAlive' = FALSE
    /\ loopSources' = loopSources \ {inst}
    /\ ret' = NoReturn
    /\ UNCHANGED <<inst, validSources, nCreated, nInvalidated, bgVars, ghostVars, mainQ,
                   staleQ, signalled, pc, arg, mainPc, mainArg, drainPc, drainInst,
                   running, crashed, sliderVars>>

\* drop(): CFRunLoopRemoveSource(CFRunLoopGetMain(), self.loop_source.0, ..), on
\* the main thread (between two run loop callbacks) or on another thread.
DropRemoveSource(onMain) ==
    /\ Live
    /\ Unborrowed
    /\ onMain => MainIdle
    /\ life' = "removed"
    /\ dropOnMain' = onMain
    /\ loopSources' = loopSources \ {inst}
    /\ ret' = NoReturn
    /\ UNCHANGED <<inst, dataAlive, validSources, nCreated, nInvalidated, bgVars,
                   ghostVars, mainQ, staleQ, signalled, pc, arg, mainPc, mainArg, drainPc,
                   drainInst, running, crashed, sliderVars>>

\* A drop that leaves the source valid.
DropInvalidateSkipped ==
    /\ ~crashed
    /\ life = "removed"
    /\ life' = "invalidated"
    /\ ret' = NoReturn
    /\ UNCHANGED <<inst, dropOnMain, dataAlive, sourceVars, bgVars, ghostVars, mainQ,
                   staleQ, signalled, pc, arg, mainPc, mainArg, drainPc, drainInst,
                   running, crashed, sliderVars>>

\* drop(): CFRunLoopSourceInvalidate(self.loop_source.0)
DropInvalidate ==
    /\ ~crashed
    /\ life = "removed"
    /\ life' = "invalidated"
    /\ validSources' = validSources \ {inst}
    /\ loopSources' = loopSources \ {inst}
    /\ signalled' = signalled \ {inst}
    /\ nInvalidated' = [nInvalidated EXCEPT ![inst] = @ + 1]
    /\ ret' = NoReturn
    /\ UNCHANGED <<inst, dropOnMain, dataAlive, nCreated, bgVars, ghostVars, mainQ, staleQ,
                   pc, arg, mainPc, mainArg, drainPc, drainInst, running, crashed,
                   sliderVars>>

\* After drop() the fields are dropped in declaration order: executor, then
\* background_thread, whose sender goes away ...
DropBackground ==
    /\ ~crashed
    /\ life = "invalidated"
    /\ life' = "closing"
    /\ bgClosed' = TRUE
    /\ ret' = NoReturn
    /\ UNCHANGED <<inst, dropOnMain, dataAlive, sourceVars, bgQ, bgPc, ghostVars, mainQ,
                   staleQ, signalled, pc, arg, mainPc, mainArg, drainPc, drainInst,
                   running, crashed, sliderVars>>

\* ... and whose worker thread is waited for; then loop_source (a raw pointer,
\* nothing happens) and main_thread_sender.
DropSender ==
    /\ ~crashed
    /\ life = "closing"
    /\ bgPc = "exited"
    /\ life' = "fields"
    /\ ret' = NoReturn
    /\ UNCHANGED <<inst, dropOnMain, dataAlive, sourceVars, bgVars, ghostVars, mainQ,
                   staleQ, signalled, pc, arg, mainPc, mainArg, drainPc, drainInst,
                   running, crashed, sliderVars>>

\* The last field, _thread_data: the Box is freed and with the receiver the channel
\* goes away, the tasks still in it are dropped.
DropThreadData ==
    /\ ~crashed
    /\ life = "fields"
    /\ life' = "none"
    /\ dataAlive' = FALSE
    /\ dropOnMain' = FALSE
    /\ staleQ' = mainQ
    /\ mainQ' = <<>>
    /\ burst' = [on |-> FALSE, res |-> <<>>]
    /\ ret' = NoReturn
    /\ UNCHANGED <<inst, sourceVars, bgVars, order, overtaken, bgOrder, signalled, pc, arg,
                   mainPc, mainArg, drainPc, drainInst, running, crashed, sliderVars>>

\* ------------------------------------------------------------------ specification

\* Construction and teardown of the scheduler, with the worker thread's exit
\* that teardown waits for.
Lifecycle ==
    \/ NewChannel
    \/ NewThreadData
    \/ NewSourceCreate
    \/ NewAddSource
    \/ NewSpawnBackground
    \/ \E onMain \in BOOLEAN : DropRemoveSource(onMain)
    \/ DropInvalidate
    \/ DropBackground
    \/ DropSender
    \/ DropThreadData
    \/ WorkerExit

\* The GUI path: schedule_gui on every thread, the run loop and its callback.
GuiPath ==
    \/ \E p \in Producers, t \in Tasks : GuiCall(p, t)
    \/ \E p \in Producers : GuiTrySend(p)
    \/ \E p \in Producers : GuiSignal(p)
    \/ \E p \in Producers : GuiWakeUp(p)
    \/ \E t \in Tasks : GuiCallMain(t)
    \/ GuiFastPath
    \/ GuiFastReturn
    \/ \E i \in Instances : RunLoopPerform(i)
    \/ DrainRecv
    \/ DrainExecReturn
    \/ DrainRecvFreed

\* The background path: schedule_background and the worker thread.
BackgroundPath ==
    \/ \E p \in Producers, t \in Tasks : BackgroundCall(p, t)
    \/ \E p \in Producers : ScheduleBackground(p)
    \/ WorkerRecv
    \/ WorkerExecReturn

Next == Lifecycle \/ GuiPath \/ BackgroundPath

Spec == Init /\ [][Next]_vars

\* The scheduler with callers that only use schedule_gui.
GuiNext == Lifecycle \/ GuiPath

GuiSpec == Init /\ [][GuiNext]_vars

\* The scheduler with callers that only use schedule_background.
BackgroundNext == Lifecycle \/ BackgroundPath

BackgroundSpec == Init /\ [][BackgroundNext]_vars

\* The scheduler with one producer thread that uses both scheduling functions.
OneProducer == {"p1"}

MixedNext ==
    \/ Lifecycle
    \/ \E p \in OneProducer, t \in Tasks : GuiCall(p, t)
    \/ \E p \in OneProducer : GuiTrySend(p)
    \/ \E p \in OneProducer : GuiSignal(p)
    \/ \E p \in OneProducer : GuiWakeUp(p)
    \/ \E i \in Instances : RunLoopPerform(i)
    \/ DrainRecv
    \/ DrainExecReturn
    \/ DrainRecvFreed
    \/ \E p \in OneProducer, t \in Tasks : BackgroundCall(p, t)
    \/ \E p \in OneProducer : ScheduleBackground(p)
    \/ WorkerRecv
    \/ WorkerExecReturn

MixedSpec == Init /\ [][MixedNext]_vars

\* The scheduler with one producer thread that uses both scheduling functions
\* and a main thread that calls schedule_gui itself.
BothPathsNext ==
    \/ MixedNext
    \/ \E t \in Tasks : GuiCallMain(t)
    \/ GuiFastPath
    \/ GuiFastReturn

BothPathsSpec == Init /\ [][BothPathsNext]_vars

\* The steps of the main thread, of a producer thread inside a call, and of the
\* worker thread.
MainThreadStep == GuiFastPath \/ GuiFastReturn \/ DrainRecv \/ DrainExecReturn \/ DrainRecvFreed

ProducerStep(p) == GuiTrySend(p) \/ GuiSignal(p) \/ GuiWakeUp(p) \/ ScheduleBackground(p)

\* Fairness of the GUI path: a thread that can take a step takes one (the
\* executor's execute returns; a construction or a drop that has begun runs to
\* its end), and the main run loop, whenever the main thread is back in it,
\* services a source that is signalled again and again.
GuiFairness ==
    /\ WF_vars(MainThreadStep)
    /\ \A p \in Producers : WF_vars(ProducerStep(p))
    /\ SF_vars(\E i \in Instances : RunLoopPerform(i))
    /\ WF_vars(WorkerExit)
    /\ WF_vars(NewThreadData \/ NewSourceCreate \/ NewAddSource \/ NewSpawnBackground)
    /\ WF_vars(DropInvalidate \/ DropBackground \/ DropSender \/ DropThreadData)

GuiFairSpec == GuiSpec /\ GuiFairness

\* ------------------------------------------------------------------ ParamSlider: on_event

\* mouse::click::Kind::next
NextKind(kind) == IF kind = "single" THEN "double" ELSE IF kind = "double" THEN "triple" ELSE "double"

\* mouse::Click::new(cursor_position, self.state.last_click).kind(): a click at
\* the place of the previous one and soon enough after it continues its series.
ClickKind(pos, soon) ==
    IF last_click # <<>> /\ soon /\ last_click[2] = pos
    THEN NextKind(last_click[1])
    ELSE "single"

\* The press resets the parameter.
IsReset(pos, soon) == keyboard_modifiers.command \/ ClickKind(pos, soon) = "double"

\* set_normalized_value(shell, normalized_value): what it publishes.
SetNormalizedValue(n) ==
    IF PreviewPlain(n) # plain THEN <<SetParameterNormalized(n)>> ELSE <<>>

\* The gesture ghost after the messages msgs were published.
GestureAfter(open, msgs) ==
    IF \E i \in DOMAIN msgs : msgs[i] \in {BeginSetParameter, EndSetParameter}
    THEN LET last == CHOOSE i \in DOMAIN msgs :
                        /\ msgs[i] \in {BeginSetParameter, EndSetParameter}
                        /\ \A j \in DOMAIN msgs :
                             msgs[j] \in {BeginSetParameter, EndSetParameter} => j <= i
         IN  msgs[last] = BeginSetParameter
    ELSE open

\* Event::Mouse(ButtonPressed(Left)) | Event::Touch(FingerPressed)
OnPress(pos, soon) ==
    /\ event' = Handled("press", pos)
    /\ buttonDown' = TRUE
    /\ IF Contains(pos)
       THEN /\ drag_active' = TRUE
            /\ last_click' = <<ClickKind(pos, soon), pos>>
            /\ IF IsReset(pos, soon)
               THEN /\ published' = <<BeginSetParameter>> \o SetNormalizedValue(DefaultNormalized)
                    /\ ignore_changes' = TRUE
                    /\ UNCHANGED granular_drag_start_x
               ELSE IF keyboard_modifiers.shift
               THEN /\ published' = <<BeginSetParameter>>
                    /\ granular_drag_start_x' = <<RemapRectXT(NormalizedValue(plain))>>
                    /\ ignore_changes' = FALSE
               ELSE /\ published' = <<BeginSetParameter>>
                                      \o SetNormalizedValue(RemapRectXCoordinate(Scale * pos.x))
                    /\ granular_drag_start_x' = <<>>
                    /\ ignore_changes' = FALSE
            /\ afterReset' = IsReset(pos, soon)
       ELSE /\ published' = <<>>
            /\ UNCHANGED <<drag_active, last_click, granular_drag_start_x, ignore_changes,
                           afterReset>>
    /\ gestureOpen' = GestureAfter(gestureOpen, published')
    /\ UNCHANGED <<keyboard_modifiers, plain, eventLoopVars>>

\* Event::Mouse(ButtonReleased(Left)) | Event::Touch(FingerLifted | FingerLost)
OnRelease(pos) ==
    /\ event' = Handled("release", pos)
    /\ buttonDown' = FALSE
    /\ IF Contains(pos)
       THEN /\ published' = <<EndSetParameter>>
            /\ drag_active' = FALSE
       ELSE /\ published' = <<>>
            /\ UNCHANGED drag_active
    /\ gestureOpen' = GestureAfter(gestureOpen, published')
    /\ UNCHANGED <<keyboard_modifiers, granular_drag_start_x, last_click, ignore_changes,
                   plain, afterReset, eventLoopVars>>

\* A move taken for a drag although no press started one.
MoveAppliesUndragged(pos) == ~ignore_changes /\ Contains(pos)

\* A move taken for a drag although the press reset the parameter.
MoveAppliesAfterReset(pos) == drag_active /\ Contains(pos)

\* The condition under which a move changes the parameter.
MoveApplies(pos) == ~ignore_changes /\ drag_active /\ Contains(pos)

\* Event::Mouse(CursorMoved) | Event::Touch(FingerMoved)
OnMove(pos) ==
    /\ event' = Handled("move", pos)
    /\ IF MoveApplies(pos)
       THEN IF keyboard_modifiers.shift
            THEN LET start == IF granular_drag_start_x = <<>>
                              THEN Scale * pos.x
                              ELSE granular_drag_start_x[1]
                 IN  /\ granular_drag_start_x' = <<start>>
                     /\ published' = SetNormalizedValue(
                                         RemapRectXCoordinate(GranularX(start, pos.x)))
            ELSE /\ granular_drag_start_x' = <<>>
                 /\ published' = SetNormalizedValue(RemapRectXCoordinate(Scale * pos.x))
       ELSE /\ published' = <<>>
            /\ UNCHANGED granular_drag_start_x
    /\ gestureOpen' = GestureAfter(gestureOpen, published')
    /\ UNCHANGED <<keyboard_modifiers, drag_active, last_click, ignore_changes, plain,
                   afterReset, buttonDown, eventLoopVars>>

\* Event::Keyboard(ModifiersChanged(modifiers))
OnModifiersChanged(modifiers) ==
    /\ modifiers # keyboard_modifiers
    /\ event' = Handled("modifiers", NoEvent.pos)
    /\ keyboard_modifiers' = modifiers
    /\ published' = <<>>
    /\ UNCHANGED <<drag_active, granular_drag_start_x, last_click, ignore_changes, plain,
                   gestureOpen, afterReset, buttonDown, eventLoopVars>>

\* The parameter gets another value: the GUI applies a published
\* SetParameterNormalized, or the host automates the parameter.
ParamChanged(p) ==
    /\ p # plain
    /\ plain' = p
    /\ event' = Handled("param", NoEvent.pos)
    /\ published' = <<>>
    /\ UNCHANGED <<keyboard_modifiers, drag_active, granular_drag_start_x, last_click,
                   ignore_changes, gestureOpen, afterReset, buttonDown, eventLoopVars>>

\* The widget under any sequence of events.
SliderNext ==
    \/ \E pos \in Positions, soon \in BOOLEAN : OnPress(pos, soon)
    \/ \E pos \in Positions : OnRelease(pos)
    \/ \E pos \in Positions : OnMove(pos)
    \/ \E modifiers \in Modifiers : OnModifiersChanged(modifiers)
    \/ \E p \in PlainValues : ParamChanged(p)

SliderSpec == Init /\ [][SliderNext]_vars

\* The widget under the events of one pointer: its button goes down only when
\* it is up and up only when it is down.
PointerNext ==
    \/ \E pos \in Positions, soon \in BOOLEAN : ~buttonDown /\ OnPress(pos, soon)
    \/ \E pos \in Positions : buttonDown /\ OnRelease(pos)
    \/ \E pos \in Positions : OnMove(pos)
    \/ \E modifiers \in Modifiers : OnModifiersChanged(modifiers)
    \/ \E p \in PlainValues : ParamChanged(p)

PointerSpec == Init /\ [][PointerNext]_vars

\* ------------------------------------------------------------------ properties

\* The step of a producer's schedule_gui call that attempts the enqueue.
TrySendStep(p) == pc[p] = "send" /\ pc'[p] # "send"

\* The step in which executor e is handed a task.
Invoked(e) == running'[e] # NotExecuting /\ running'[e] # running[e]

\* C1: a schedule_gui call made on the main thread hands the task to the
\* executor with the GUI flag set as the first thing it does, returns only after
\* that execution and returns true, and none of its steps changes the main
\* queue or signals the run-loop source, whatever the length of the queue.
C1_MainThreadFastPath ==
    [][/\ (mainPc = "call" /\ mainPc' # "call")
            => mainPc' = "fast" /\ running'["main"] = <<TaskOf(mainArg), TRUE>>
       /\ (mainPc # "idle" /\ mainPc' = "idle")
            => mainPc = "fast" /\ running'["main"] = NotExecuting
                               /\ ret' = Return("main", TRUE)
       /\ (mainPc # mainPc') => UNCHANGED <<mainQ, signalled>>]_vars

\* A main-thread call has just returned true while the queue is full.
C1_Witness ==
    /\ ret = Return("main", TRUE)
    /\ Len(mainQ) = TASK_QUEUE_CAPACITY

\* The main thread's executor is running task t as a GUI task.
ExecutedOnMain(t) == running["main"] = <<t, TRUE>>

\* The tasks producers submit.
ProducerTasks == {t \in Tasks : Submitter(t) \in Producers}

\* A producer's schedule_gui call that finds spare capacity enqueues the task and
\* goes on to signal and wake; from there it can only return true.
AcceptedReturnsTrue ==
    [][\A p \in Producers :
         /\ (TrySendStep(p) /\ TrySendOk(mainQ))
              => pc'[p] = "signal" /\ mainQ' = Append(mainQ, TaskOf(arg[p]))
         /\ (pc[p] \in {"signal", "wake"} /\ pc'[p] # pc[p])
              => \/ pc[p] = "signal" /\ pc'[p] = "wake"
                 \/ pc[p] = "wake" /\ pc'[p] = "idle" /\ ret' = Return(p, TRUE)]_vars

\* The main thread's executor is handed a producer's task only with the GUI flag
\* set, only while the task is accepted and not yet executed, and that ends then.
ExecutedAtMostOnce ==
    [][Invoked("main") =>
         LET t == running'["main"][1]
         IN  t \in ProducerTasks =>
               /\ running'["main"][2] = TRUE
               /\ InSeq(t, order[Submitter(t)])
               /\ ~InSeq(t, order'[Submitter(t)])]_vars

C3_FullQueueRejects ==
    [][/\ \A p \in Producers :
            (TrySendStep(p) /\ Len(mainQ) = TASK_QUEUE_CAPACITY)
              => /\ ret' = Return(p, FALSE)
                 /\ pc'[p] = "idle"
                 /\ UNCHANGED <<mainQ, signalled, running>>
                 /\ \A t \in Tasks : arg[p] = Held(t) => Unheld(t)'
       /\ \A e \in Executing : Invoked(e) => ~Unheld(running'[e][1])]_vars

\* A producer's call has just been rejected by a full queue.
C3_Witness ==
    /\ \E p \in Producers : ret = Return(p, FALSE)
    /\ Len(mainQ) = TASK_QUEUE_CAPACITY
    /\ life = "live"

\* C4: of the submissions made to a fresh scheduler from non-main threads with
\* no receive in between, the first TASK_QUEUE_CAPACITY are accepted and the
\* next one is rejected; and the main queue never holds more than
\* TASK_QUEUE_CAPACITY tasks.
C4_CapacityBound ==
    /\ Len(mainQ) <= TASK_QUEUE_CAPACITY
    /\ Len(staleQ) <= TASK_QUEUE_CAPACITY
    /\ \A i \in DOMAIN burst.res : burst.res[i] = (i <= TASK_QUEUE_CAPACITY)

\* The submission after the first TASK_QUEUE_CAPACITY ones has been answered.
C4_Witness ==
    /\ burst.on
    /\ Len(burst.res) = TASK_QUEUE_CAPACITY + 1
    /\ Len(mainQ) = TASK_QUEUE_CAPACITY

\* C5: whenever the drain callback hands a producer's task to the executor, that
\* task is the oldest of the tasks this producer had accepted and that are not
\* executed yet: the tasks of one thread are executed in the order accepted.
C5_PerProducerFifo ==
    [][(drainPc = "recv" /\ drainPc' = "exec") =>
         LET t == running'["main"][1]
         IN  /\ running["main"] = NotExecuting
             /\ order[Submitter(t)] # <<>>
             /\ Head(order[Submitter(t)]) = t]_vars

\* The drain callback executes a producer's first task while the second task of
\* the same producer waits in the queue behind it.
C5_Witness ==
    /\ drainPc = "exec"
    /\ InfoValid
    /\ ExecutedOnMain(<<"p1", 1>>)
    /\ InSeq(<<"p1", 2>>, mainQ)

\* C6: a task accepted by schedule_background reaches the worker's queue; the
\* worker hands the executor a task only when its previous execution has
\* returned, with the GUI flag cleared, and the task is the oldest one its
\* submitter had accepted and that is not executed yet.
C6_BackgroundOrder ==
    [][/\ \A p \in Producers, t \in Tasks :
            (pc[p] = "bgsend" /\ arg[p] = Held(t) /\ ret' = Return(p, TRUE))
              => bgQ' = Append(bgQ, t)
       /\ Invoked("worker") =>
            LET t == running'["worker"][1]
            IN  /\ running["worker"] = NotExecuting
                /\ running'["worker"][2] = FALSE
                /\ bgOrder[Submitter(t)] # <<>>
                /\ Head(bgOrder[Submitter(t)]) = t]_vars

\* The worker executes a producer's first background task while the second one
\* of the same producer waits behind it.
C6_Witness ==
    /\ running["worker"] = <<<<"p1", 1>>, FALSE>>
    /\ InSeq(<<"p1", 2>>, bgQ)

\* The positions a call goes through: every step of a call moves it forward, and
\* it ends by returning a boolean.
CallProgress ==
    {<<"send", "signal">>, <<"send", "idle">>, <<"signal", "wake">>, <<"wake", "idle">>,
     <<"bgsend", "idle">>}

\* C7: a producer inside schedule_gui or schedule_background can always take its
\* next step, whatever the queues hold and whatever the main thread and the
\* worker are doing; every step moves the call forward, so it is over after at
\* most three steps of its own, and its last step returns a boolean.
C7_ScheduleNeverBlocks ==
    /\ [](\A p \in Producers : pc[p] # "idle" => ENABLED ProducerStep(p))
    /\ [][\A p \in Producers :
            pc[p] # "idle" /\ pc'[p] # pc[p]
              => /\ <<pc[p], pc'[p]>> \in CallProgress
                 /\ pc'[p] = "idle" => ret' \in {Return(p, TRUE), Return(p, FALSE)}]_vars

\* A producer is about to attempt the enqueue on a full queue while the drain
\* callback is not running and the worker has nothing to do.
C7_Witness ==
    /\ pc["p1"] = "send"
    /\ Len(mainQ) = TASK_QUEUE_CAPACITY
    /\ drainPc = "idle"
    /\ bgPc = "wait"
    /\ bgQ = <<>>

\* C8 as stated, for the invocations whose captured state is alive: every
\* invocation of the drain callback returns, also while producers keep calling
\* schedule_gui.
C8_DrainTerminates ==
    (drainPc # "idle") ~> (drainPc = "idle" \/ ~InfoValid \/ crashed)

\* C8: the drain callback never waits: while it is about to receive, its receive
\* step can be taken whether or not the queue is empty; a receive on the live
\* queue that finds it empty returns from the callback, and one that finds a
\* task hands that task, the oldest queued, to the executor with the GUI flag
\* set; the executor is entered by the callback only with that flag.
C8_DrainNeverWaits ==
    /\ []((drainPc = "recv" /\ ~crashed) => ENABLED (DrainRecv \/ DrainRecvFreed))
    /\ [][(drainPc = "recv" /\ drainPc' # "recv") =>
            /\ InfoValid =>
                 IF mainQ = <<>>
                   THEN drainPc' = "idle" /\ UNCHANGED <<mainQ, running>>
                   ELSE /\ drainPc' = "exec"
                        /\ running'["main"] = <<Head(mainQ), TRUE>>
                        /\ mainQ' = Tail(mainQ)
            /\ drainPc' = "exec" => running'["main"][2] = TRUE]_vars

\* The drain callback has emptied the queue and is about to receive from the
\* empty queue, while a producer is in the middle of a schedule_gui call.
C8_Witness ==
    /\ drainPc = "recv"
    /\ InfoValid
    /\ mainQ = <<>>
    /\ burst.on
    /\ burst.res = <<>>
    /\ \E p \in Producers : pc[p] = "send"

\* Instance i has got as far as creating its source / as invalidating it.
SourceCreated(i) == i < inst \/ (i = inst /\ life \notin {"chan", "boxed"})

SourceInvalidated(i) ==
    i < inst \/ (i = inst /\ life \in {"invalidated", "closing", "fields", "none"})

\* C9: every instance creates its source once, when its construction gets there,
\* and invalidates it once, when its drop gets there; the source is valid exactly
\* in between, is in the run loop only while valid and only from the add of the
\* construction to the remove of the drop, and once an instance is dropped no
\* source is valid or in the run loop.
C9_OneRegistration ==
    /\ \A i \in Instances :
         /\ nCreated[i] = IF SourceCreated(i) THEN 1 ELSE 0
         /\ nInvalidated[i] = IF SourceInvalidated(i) THEN 1 ELSE 0
         /\ i \in validSources <=> (SourceCreated(i) /\ ~SourceInvalidated(i))
         /\ i \in loopSources <=> (i = inst /\ life \in {"added", "live"})
    /\ signalled \subseteq validSources
    /\ life = "none" => validSources = {} /\ loopSources = {}

\* Every instance has been constructed and dropped.
C9_Witness ==
    /\ inst = MaxInstances
    /\ life = "none"
    /\ \A i \in Instances : nCreated[i] = 1 /\ nInvalidated[i] = 1
    /\ validSources = {}

\* C10: the callback's captured state is alive whenever a source is valid or in
\* the run loop; the drop invalidates the source after it has removed it from
\* the run loop, and frees the captured state only after it has invalidated it.
C10_FreedAfterInvalidate ==
    /\ []((validSources \cup loopSources) # {} => dataAlive)
    /\ [][/\ nInvalidated' # nInvalidated => inst \notin loopSources
          /\ (dataAlive /\ ~dataAlive')
               => /\ nInvalidated[inst] = 1
                  /\ inst \notin (validSources \cup loopSources)]_vars

\* The drop has invalidated the source and has not freed the captured state yet.
C10_Witness ==
    /\ life = "fields"
    /\ dataAlive
    /\ nInvalidated[inst] = 1
    /\ inst \notin validSources

\* The drop of the current instance has begun and has not finished.
DropInProgress == life \in {"removed", "invalidated", "closing", "fields"}

\* C11: while the drain callback is running (about to read the captured state,
\* or inside the executor), no drop is in progress and the captured state it
\* was given is alive.
C11_NoDrainDuringTeardown ==
    drainPc # "idle" => (~DropInProgress /\ InfoValid)

\* C12: a task accepted into the main queue is eventually executed unless the
\* scheduler is dropped first; and the main thread's executor is handed only
\* the task of a main-thread call or the oldest task of the live queue, so that
\* the tasks discarded by a drop are never executed and a scheduler that was
\* given no task never enters the executor.
C12_DiscardedAtTeardown ==
    /\ \A t \in ProducerTasks : InSeq(t, mainQ) ~> (ExecutedOnMain(t) \/ life # "live")
    /\ [][Invoked("main") =>
            LET t == running'["main"][1]
            IN  \/ mainArg = Held(t)
                \/ mainQ # <<>> /\ t = Head(mainQ) /\ ~InSeq(t, staleQ)]_vars

\* The background worker of the current instance is running.
WorkerSpawned == bgPc \in {"wait", "exec"}

\* C13: the captured state is allocated only once the channel exists and while
\* no source does; the source is created only when the captured state is
\* allocated, and added to the run loop only after that and before the worker
\* is spawned; the worker is spawned only when the source is in the run loop.
\* A source is never valid or registered while the captured state is not allocated.
C13_ConstructionOrder ==
    /\ []((validSources \cup loopSources) # {} => dataAlive)
    /\ [][/\ (~dataAlive /\ dataAlive')
               => life = "chan" /\ inst \notin validSources /\ ~WorkerSpawned
          /\ (inst \notin validSources /\ inst \in validSources')
               => dataAlive /\ inst \notin loopSources /\ ~WorkerSpawned
          /\ (inst \notin loopSources /\ inst \in loopSources')
               => dataAlive /\ inst \in validSources /\ ~WorkerSpawned
          /\ (~WorkerSpawned /\ WorkerSpawned')
               => dataAlive /\ inst \in validSources /\ inst \in loopSources]_vars

\* The construction has registered the source and has not spawned the worker yet.
C13_Witness ==
    /\ life = "added"
    /\ dataAlive
    /\ inst \in loopSources
    /\ ~WorkerSpawned

\* Some task is queued and every producer that enqueued has also signalled.
QueuedAndSignalDue == mainQ # <<>> /\ \A p \in Producers : pc[p] # "signal"

\* The source of the current instance is signalled, or the drain callback is
\* running (it returns only when it has seen the queue empty).
WakeUpPending == inst \in signalled \/ drainPc # "idle"

\* C14 as stated: in every reachable state with a non-empty main queue and no
\* producer between its enqueue and its signal, a wake-up is pending.
C14_NoLostWakeUp == QueuedAndSignalDue => WakeUpPending

\* C14: a producer reaches its signal only by an enqueue that succeeded, and the
\* source becomes signalled only by a producer's signal; and in every reachable
\* state in which the scheduler is constructed and not being dropped, a non-empty
\* main queue with no producer between enqueue and signal has a wake-up pending.
C14_NoLostWakeUpWhileLive ==
    /\ []((life = "live" /\ QueuedAndSignalDue) => WakeUpPending)
    /\ [][/\ \A p \in Producers :
               (pc[p] # "signal" /\ pc'[p] = "signal")
                 => pc[p] = "send" /\ Len(mainQ') = Len(mainQ) + 1
          /\ (signalled' \ signalled) # {}
               => \E p \in Producers : pc[p] = "signal" /\ pc'[p] = "wake"]_vars

\* The signal has been consumed: the drain callback is inside the executor while
\* a further task waits in the queue.
C14_Witness ==
    /\ life = "live"
    /\ QueuedAndSignalDue
    /\ inst \notin signalled
    /\ drainPc = "exec"

\* C15: an execution carries the GUI flag exactly when it runs on the main
\* thread, where it belongs either to the fast path of schedule_gui or to the
\* drain callback, never to both; each thread enters the executor only when it
\* is not inside it, so there is at most one execution per path at any time.
C15_OneExecutionPerPath ==
    /\ [](\A e \in Executing :
            running[e] # NotExecuting => (running[e][2] <=> e = "main"))
    /\ [](running["main"] # NotExecuting <=> (mainPc = "fast" \/ drainPc = "exec"))
    /\ [](~(mainPc = "fast" /\ drainPc = "exec"))
    /\ [](running["worker"] # NotExecuting <=> bgPc = "exec")
    /\ [][\A e \in Executing : Invoked(e) => running[e] = NotExecuting]_vars

\* The main thread is inside a GUI execution while the worker is inside a
\* background execution.
C15_Witness ==
    /\ running["main"] # NotExecuting
    /\ running["worker"] # NotExecuting
    /\ running["main"][2]
    /\ ~running["worker"][2]

\* C16: a main-thread call is executed without the drain callback running and
\* without touching the queue, so every task waiting in the queue at that moment
\* is overtaken; an overtaken task stays queued until the drain callback
\* executes it (or a drop discards it).
C16_FastPathOvertakes ==
    /\ [](mainPc # "idle" => drainPc = "idle")
    /\ [](\A t \in overtaken :
            \/ InSeq(t, mainQ)
            \/ InSeq(t, staleQ)
            \/ drainPc = "exec" /\ ExecutedOnMain(t))
    /\ [][(mainPc = "call" /\ mainPc' = "fast")
            => /\ mainQ' = mainQ
               /\ running'["main"] = <<TaskOf(mainArg), TRUE>>
               /\ \A i \in DOMAIN mainQ : mainQ[i] \in overtaken']_vars

\* The drain callback of the live instance executes a producer's task that was
\* waiting in the queue while a main-thread call was executed.
C16_Witness ==
    /\ drainPc = "exec"
    /\ InfoValid
    /\ running["main"][1] \in overtaken
    /\ running["main"][1] \in ProducerTasks

\* C17: the step of schedule_background returns whether the worker's queue had
\* room, whatever the main queue holds, and leaves the main queue and the
\* signalled sources unchanged; the steps of schedule_gui, on a producer thread
\* or on the main thread, leave the worker's queue unchanged, and its enqueue
\* attempt is accepted exactly when the main queue has room, whatever the
\* worker's queue holds.
C17_QueuesIndependent ==
    [][/\ \A p \in Producers :
            /\ (pc[p] = "bgsend" /\ pc'[p] # "bgsend")
                 => /\ ret' = Return(p, Len(bgQ) < TASK_QUEUE_CAPACITY)
                    /\ UNCHANGED <<mainQ, signalled>>
            /\ (pc[p] \in {"send", "signal", "wake"} /\ pc'[p] # pc[p])
                 => /\ UNCHANGED bgQ
                    /\ pc[p] = "send"
                         => (pc'[p] = "signal" <=> Len(mainQ) < TASK_QUEUE_CAPACITY)
       /\ mainPc' # mainPc => UNCHANGED bgQ]_vars

\* schedule_background has just returned true while the main queue is full.
C17_Witness ==
    /\ Len(mainQ) = TASK_QUEUE_CAPACITY
    /\ bgQ = <<<<"p1", NumTasks>>>>
    /\ ret = Return("p1", TRUE)


\* ------------------------------------------------------------------ ParamSlider: properties

\* Message i of msgs is a SetParameterNormalized.
IsSet(msgs, i) == msgs[i][1] = "SetParameterNormalized"

\* Whether a gesture is open just before message i of msgs is published.
OpenBefore(open, msgs, i) == GestureAfter(open, SubSeq(msgs, 1, i - 1))

\* C18: every published SetParameterNormalized is preceded by a
\* BeginSetParameter with no EndSetParameter between them, and is published by
\* an event that leaves drag_active true.
C18_SetInsideGesture ==
    [][\A i \in DOMAIN published' :
          IsSet(published', i) => (OpenBefore(gestureOpen, published', i) /\ drag_active')]_vars

\* A move inside an open gesture published a value change.
C18_Witness ==
    /\ event.kind = "move"
    /\ published # <<>>
    /\ IsSet(published, 1)
    /\ gestureOpen
    /\ drag_active

\* C19: after a press inside the bounds that reset the parameter,
\* ignore_changes is true and no move publishes a SetParameterNormalized,
\* until a press inside the bounds that is not a reset.
C19_NoChangeAfterReset ==
    /\ [](afterReset => ignore_changes)
    /\ [][(afterReset /\ event'.kind = "move") => published' = <<>>]_vars

\* After a reset, a move inside the bounds during the drag, to a place that
\* stands for another value than the parameter has, published nothing.
C19_Witness ==
    /\ afterReset
    /\ event.kind = "move"
    /\ Contains(event.pos)
    /\ drag_active
    /\ keyboard_modifiers.shift = FALSE
    /\ PreviewPlain(RemapRectXCoordinate(Scale * event.pos.x)) # plain
    /\ published = <<>>

\* C20: BeginSetParameter and EndSetParameter alternate, starting with a
\* Begin, and drag_active is true exactly when a Begin has been published
\* without an End after it.
C20_BeginEndAlternate ==
    /\ [](drag_active <=> gestureOpen)
    /\ [][\A i \in DOMAIN published' :
            /\ published'[i] = BeginSetParameter => ~OpenBefore(gestureOpen, published', i)
            /\ published'[i] = EndSetParameter => OpenBefore(gestureOpen, published', i)]_vars

=============================================================================
